---- MODULE Spec2Model ----
(***************************************************************************)
(* Model of the Wikipedia RAG retrieval pipeline (src/src/retrieval.py and *)
(* process_question of src/src/main.py).                                   *)
(*                                                                         *)
(* Text is held run-length encoded: a string is a sequence of runs         *)
(* <<c, n>> (n >= 1 copies of character c), adjacent runs having different *)
(* characters.  This keeps the real chunk_size of 800 characters.          *)
(* An embedding vector is a record [dim, head]: dim coordinates, the       *)
(* leading ones listed in head (without trailing zeros), all others 0.     *)
(* Coordinates are integers (tenths), so distances are exact.              *)
(***************************************************************************)
EXTENDS Integers, Sequences, FiniteSets

VARIABLES op, pc, outcome, max_chunks, content, i, chunks, depth, how, wins,
          embeddings, calls, matrix, top_k, qvec, labels, relevant, path,
          nClient, nEmbed, nChat

vars == <<op, pc, outcome, max_chunks, content, i, chunks, depth, how, wins,
          embeddings, calls, matrix, top_k, qvec, labels, relevant, path,
          nClient, nEmbed, nChat>>

chunkVars == <<max_chunks, content, i, chunks, depth, how, wins>>
embedVars == <<embeddings, calls, matrix>>
retrVars == <<top_k, qvec, labels, relevant, path>>
callVars == <<nClient, nEmbed, nChat>>

(***************************************************************************)
(* Bounds of the model.                                                    *)
(***************************************************************************)
MaxRuns == 4
MaxM == 3
RecLimit == 2
MaxChunks == 3
MaxK == 4
MaxPipeRuns == 1

(***************************************************************************)
(* Program constants.                                                      *)
(***************************************************************************)
chunk_size == 800
D == 1536
PipeMaxChunks == 10
PipeTopK == 3

(***************************************************************************)
(* Strings (run-length encoded) and the Python string operations used.     *)
(***************************************************************************)
Min(a, b) == IF a <= b THEN a ELSE b

IsSpace(c) == c \in {" ", "\n"}

RECURSIVE StrLen(_)
StrLen(s) == IF s = <<>> THEN 0 ELSE Head(s)[2] + StrLen(Tail(s))

\* Canonical form: no empty run, adjacent runs of one character merged.
RECURSIVE Canon(_)
Canon(s) ==
  IF s = <<>> THEN <<>>
  ELSE IF Head(s)[2] <= 0 THEN Canon(Tail(s))
  ELSE LET r == Canon(Tail(s)) IN
       IF r # <<>> /\ Head(r)[1] = Head(s)[1]
       THEN <<<<Head(s)[1], Head(s)[2] + Head(r)[2]>>>> \o Tail(r)
       ELSE <<Head(s)>> \o r

\* s[:n] for n >= 0
RECURSIVE Take(_, _)
Take(s, n) ==
  IF n <= 0 \/ s = <<>> THEN <<>>
  ELSE IF Head(s)[2] <= n THEN <<Head(s)>> \o Take(Tail(s), n - Head(s)[2])
  ELSE <<<<Head(s)[1], n>>>>

\* s[n:] for n >= 0
RECURSIVE Drop(_, _)
Drop(s, n) ==
  IF s = <<>> THEN <<>>
  ELSE IF n <= 0 THEN s
  ELSE IF Head(s)[2] <= n THEN Drop(Tail(s), n - Head(s)[2])
  ELSE <<<<Head(s)[1], Head(s)[2] - n>>>> \o Tail(s)

\* s[a:b] for 0 <= a, 0 <= b (Python clamps both to len(s))
Slice(s, a, b) == Take(Drop(s, a), b - a)

\* s.rfind(c): index of the last c, -1 when there is none
RECURSIVE RFind(_, _)
RFind(s, c) ==
  IF s = <<>> THEN -1
  ELSE IF s[Len(s)][1] = c THEN StrLen(s) - 1
  ELSE RFind(SubSeq(s, 1, Len(s) - 1), c)

RECURSIVE LStrip(_)
LStrip(s) == IF s # <<>> /\ IsSpace(Head(s)[1]) THEN LStrip(Tail(s)) ELSE s

RECURSIVE RStrip(_)
RStrip(s) ==
  IF s # <<>> /\ IsSpace(s[Len(s)][1]) THEN RStrip(SubSeq(s, 1, Len(s) - 1)) ELSE s

\* s.strip()
Strip(s) == RStrip(LStrip(s))

\* re.sub(r'\n+', ' ', s): every maximal run of newlines becomes one space
SubNewlines(s) ==
  Canon([k \in 1..Len(s) |-> IF s[k][1] = "\n" THEN <<" ", 1>> ELSE s[k]])

\* re.sub(r'\s+', ' ', s): every maximal run of whitespace becomes one space
RECURSIVE SubSpaces(_)
SubSpaces(s) ==
  IF s = <<>> THEN <<>>
  ELSE IF IsSpace(Head(s)[1])
       THEN <<<<" ", 1>>>> \o SubSpaces(LStrip(s))
       ELSE <<Head(s)>> \o SubSpaces(Tail(s))

\* lines 57-59 of get_wikipedia_chunks
Normalize(raw) == Strip(SubSpaces(SubNewlines(Canon(raw))))

(***************************************************************************)
(* Inputs.                                                                 *)
(***************************************************************************)
\* the runs raw page text is built from
RunChoices ==
  {<<"a", 1>>, <<"a", 400>>, <<"a", 560>>, <<"a", 800>>,
   <<".", 1>>, <<".", 2>>, <<" ", 1>>, <<"\n", 1>>}

TextsUpTo(n) == UNION {[1..m -> RunChoices] : m \in 0..n}

\* page contents the document source may return
Texts == TextsUpTo(MaxRuns)
PipeTexts == TextsUpTo(MaxPipeRuns)

NoMatrix == [rows |-> <<>>, width |-> -1]
NoVec == [dim |-> -1, head |-> <<>>]

(***************************************************************************)
(* get_wikipedia_chunks                                                    *)
(***************************************************************************)
\* mutant: the disambiguation handler has no inner try/except
ChunkReturnRaise(list, h) ==
  /\ chunks' = list
  /\ how' = h
  /\ pc' = IF op = "process_question" /\ h # "fallback_error" THEN "pq_chunks" ELSE "done"
  /\ outcome' = IF h = "fallback_error" THEN "raised"
                ELSE IF op = "process_question" THEN outcome ELSE "returned"

\* return of get_wikipedia_chunks to its caller (lines 50, 80, 89, 91)
ChunkReturn(list, h) ==
  /\ chunks' = list
  /\ how' = h
  /\ pc' = IF op = "process_question" THEN "pq_chunks" ELSE "done"
  /\ outcome' = IF op = "process_question" THEN outcome ELSE "returned"

\* lines 48-50: wikipedia.search(query, results=1)
Search ==
  /\ pc = "search"
  /\ \/ ChunkReturn(<<>>, "search_empty")   \* no result
     \/ ChunkReturn(<<>>, "error")          \* search raises: except at line 90
     \/ /\ pc' = "page"                     \* a title is found
        /\ UNCHANGED <<chunks, how, outcome>>
  /\ UNCHANGED <<op, max_chunks, content, i, depth, wins>>
  /\ UNCHANGED <<embedVars, retrVars, callVars>>

\* lines 53-63: wikipedia.page(...), page.content, normalisation
Page ==
  /\ pc = "page"
  /\ \/ /\ ChunkReturn(<<>>, "error")       \* page fetch raises: line 90
        /\ UNCHANGED <<content, i, wins>>
     \/ /\ pc' = "disambig"                 \* DisambiguationError: line 82
        /\ UNCHANGED <<content, i, wins, chunks, how, outcome>>
     \/ \E raw \in (IF op = "process_question" THEN PipeTexts ELSE Texts) :
          /\ content' = Normalize(raw)
          /\ i' = 0
          /\ chunks' = <<>>
          /\ wins' = <<>>
          /\ pc' = "loop"
          /\ UNCHANGED <<how, outcome>>
  /\ UNCHANGED <<op, max_chunks, depth>>
  /\ UNCHANGED <<embedVars, retrVars, callVars>>

\* line 66
Window(s, at) == Slice(s, at, at + chunk_size)

\* mutant: the period at the 70% mark itself also trims
TrimAtPeriodGe(chunk) ==
  LET last_period == RFind(chunk, ".") IN
  IF last_period * 10 >= chunk_size * 7 THEN Take(chunk, last_period + 1) ELSE chunk

\* lines 70-72
TrimAtPeriod(chunk) ==
  LET last_period == RFind(chunk, ".") IN
  IF last_period * 10 > chunk_size * 7 THEN Take(chunk, last_period + 1) ELSE chunk

\* lines 66-72: the candidate chunk of the window starting at `at`
Candidate(s, at) ==
  IF at + chunk_size < StrLen(s) THEN TrimAtPeriod(Window(s, at)) ELSE Window(s, at)

\* line 77
ReachedMax(list, m) == Len(list) >= m

\* mutant: windows advance by one character less than their length
NextStartOverlap(at) == at + chunk_size - 1

\* line 65: the next value of range(0, len(content), chunk_size)
NextStart(at) == at + chunk_size

\* lines 65-78: one iteration of the chunking loop
LoopBody ==
  /\ pc = "loop"
  /\ i < StrLen(content)
  /\ LET chunk == Candidate(content, i)
         kept == Strip(chunk) # <<>>
         out == IF kept THEN Append(chunks, Strip(chunk)) ELSE chunks
     IN /\ wins' = IF kept THEN Append(wins, i) ELSE wins
        /\ IF ReachedMax(out, max_chunks)
           THEN /\ ChunkReturn(out, "chunked")
                /\ i' = i
           ELSE /\ chunks' = out
                /\ i' = NextStart(i)
                /\ UNCHANGED <<pc, how, outcome>>
  /\ UNCHANGED <<op, max_chunks, content, depth>>
  /\ UNCHANGED <<embedVars, retrVars, callVars>>

\* lines 65, 80: the range is exhausted
LoopExit ==
  /\ pc = "loop"
  /\ i >= StrLen(content)
  /\ ChunkReturn(chunks, "chunked")
  /\ UNCHANGED <<op, max_chunks, content, i, depth, wins>>
  /\ UNCHANGED <<embedVars, retrVars, callVars>>

\* lines 82-89: the DisambiguationError handler
Disambig ==
  /\ pc = "disambig"
  /\ \/ /\ ChunkReturn(<<>>, "fallback_error")  \* options[0] / page raises: line 88
        /\ UNCHANGED depth
     \/ IF depth >= RecLimit
        THEN /\ ChunkReturn(<<>>, "recursion_limit")  \* RecursionError: line 88
             /\ UNCHANGED depth
        ELSE /\ depth' = depth + 1              \* line 87: the recursive call
             /\ pc' = "search"
             /\ UNCHANGED <<chunks, how, outcome>>
  /\ UNCHANGED <<op, max_chunks, content, i, wins>>
  /\ UNCHANGED <<embedVars, retrVars, callVars>>

NextChunk == Search \/ Page \/ LoopBody \/ LoopExit \/ Disambig

(***************************************************************************)
(* Embedding vectors and the embedding service.                            *)
(***************************************************************************)
\* line 123: [0.0] * 1536
ZeroVec(d) == [dim |-> d, head |-> <<>>]

Heads == {<<>>, <<10>>, <<0, 10>>, <<9, 1>>}

\* what response.data[0].embedding may be: a D-dimensional vector, or a
\* malformed one of another length
ServiceVecs == {[dim |-> d, head |-> h] : d \in {2, D}, h \in Heads}

\* the environment of get_kong_client (lines 20-24): is the configuration set?
ConfigStates == {"present", "missing"}

\* return of embed_chunks to its caller (lines 105, 127)
EmbedReturn(m) ==
  /\ matrix' = m
  /\ pc' = IF op = "process_question" THEN "r_entry" ELSE "done"
  /\ outcome' = IF op = "process_question" THEN outcome ELSE "returned"

\* an exception leaving embed_chunks (raised at line 109 or 126); in
\* process_question it is caught at main.py line 152
EmbedRaise ==
  /\ pc' = "done"
  /\ outcome' = IF op = "process_question" THEN "error" ELSE "raised"
  /\ UNCHANGED matrix

\* mutant: no early return for an empty chunk list
EmbedEntryNoGuard ==
  /\ pc = "e_entry"
  /\ pc' = "e_client"
  /\ embeddings' = <<>>
  /\ calls' = <<>>
  /\ UNCHANGED <<op, outcome, chunkVars, retrVars, callVars, matrix>>

\* lines 104-107
EmbedEntry ==
  /\ pc = "e_entry"
  /\ IF chunks = <<>>
     THEN EmbedReturn([rows |-> <<>>, width |-> D])
     ELSE /\ pc' = "e_client"
          /\ UNCHANGED <<matrix, outcome>>
  /\ embeddings' = <<>>
  /\ calls' = <<>>
  /\ UNCHANGED <<op, chunkVars, retrVars, callVars>>

\* line 109: client = get_kong_client()
EmbedClient ==
  /\ pc = "e_client"
  /\ nClient' = nClient + 1
  /\ \E cfg \in ConfigStates :
       IF cfg = "present"
       THEN /\ pc' = "e_loop"
            /\ UNCHANGED <<matrix, outcome>>
       ELSE EmbedRaise
  /\ UNCHANGED <<op, chunkVars, retrVars, embeddings, calls, nEmbed, nChat>>

\* mutant: the substituted zero vector is one entry short
RowForShort(r) == IF r.ok THEN r.vec ELSE ZeroVec(D - 1)

\* lines 118-123: the row appended for one service outcome
RowFor(r) == IF r.ok THEN r.vec ELSE ZeroVec(D)

\* the outcomes of one client.embeddings.create call
ServiceOutcomes ==
  {[ok |-> FALSE, vec |-> NoVec]} \cup {[ok |-> TRUE, vec |-> v] : v \in ServiceVecs}

\* lines 111-123: one iteration of the embedding loop
EmbedCall ==
  /\ pc = "e_loop"
  /\ Len(embeddings) < Len(chunks)
  /\ nEmbed' = nEmbed + 1
  /\ \E r \in ServiceOutcomes :
       /\ embeddings' = Append(embeddings, RowFor(r))
       /\ calls' = Append(calls, r)
  /\ UNCHANGED <<op, pc, outcome, chunkVars, retrVars, matrix, nClient, nChat>>

\* line 126: np.array(embeddings, dtype=np.float32) accepts equal-length rows
Rectangular(list) == \A a, b \in 1..Len(list) : list[a].dim = list[b].dim

\* lines 126-127
EmbedFinish ==
  /\ pc = "e_loop"
  /\ Len(embeddings) = Len(chunks)
  /\ IF Rectangular(embeddings)
     THEN EmbedReturn([rows |-> embeddings, width |-> embeddings[1].dim])
     ELSE EmbedRaise
  /\ UNCHANGED <<op, chunkVars, retrVars, callVars, embeddings, calls>>

NextEmbed == EmbedEntry \/ EmbedClient \/ EmbedCall \/ EmbedFinish

\* the chunk texts handed to embed_chunks and retrieve_relevant_chunks
ChunkNames == <<"A", "B", "C", "D", "E", "F">>
ChunkList(n) == [k \in 1..n |-> <<<<ChunkNames[k], 1>>>>]

(***************************************************************************)
(* retrieve_relevant_chunks                                                *)
(***************************************************************************)
Coord(v, j) == IF j <= Len(v.head) THEN v.head[j] ELSE 0

RECURSIVE SumSq(_, _, _)
SumSq(u, v, j) ==
  IF j = 0 THEN 0
  ELSE (Coord(u, j) - Coord(v, j)) * (Coord(u, j) - Coord(v, j)) + SumSq(u, v, j - 1)

\* the squared Euclidean distance IndexFlatL2 ranks by
Dist2(u, v) == SumSq(u, v, IF Len(u.head) >= Len(v.head) THEN Len(u.head) ELSE Len(v.head))

\* The search itself is faiss's (an exact L2 index, lines 157-164); no
\* version of it is fixed by the repository.  What it returns is modelled by
\* its contract: the k nearest rows in ascending distance.  The order of
\* equally distant rows is not part of that contract and is left open: every
\* priority order of the rows is one possible build.
Priorities(n) ==
  {f \in [0..(n - 1) -> 0..(n - 1)] : \A a, b \in 0..(n - 1) : a # b => f[a] # f[b]}

\* the tie orders of every index size that occurs, computed once
PriorityTable == [n \in 0..(MaxChunks + MaxPipeRuns) |-> Priorities(n)]

\* row a is listed before row b: dist[a] is row a's distance to the query,
\* equally distant rows are ordered by prio
Before(dist, prio, a, b) ==
  \/ dist[a] < dist[b]
  \/ dist[a] = dist[b] /\ prio[a] < prio[b]

\* the labels of one search under one tie order, padded with -1 when the
\* index holds fewer than k rows
IndexSearch(dist, prio, k) ==
  LET rows == DOMAIN dist
      rank == [b \in rows |-> Cardinality({a \in rows : Before(dist, prio, a, b)})]
  IN [j \in 1..k |->
        IF j <= Cardinality(rows) THEN CHOOSE b \in rows : rank[b] = j - 1 ELSE -1]

\* line 164: the label lists index.search(question_embedding, k) may return
SearchResults(rows, q, k) ==
  LET dist == [a \in 0..(Len(rows) - 1) |-> Dist2(rows[a + 1], q)]
  IN {IndexSearch(dist, prio, k) : prio \in PriorityTable[Len(rows)]}

\* mutant: the bound check skips row 0
RECURSIVE MapLabelsSkipFirst(_, _)
MapLabelsSkipFirst(ls, list) ==
  IF ls = <<>> THEN <<>>
  ELSE IF 0 < Head(ls) /\ Head(ls) < Len(list)
       THEN <<list[Head(ls) + 1]>> \o MapLabelsSkipFirst(Tail(ls), list)
       ELSE MapLabelsSkipFirst(Tail(ls), list)

\* lines 167-170: the chunks of the labels that are valid positions
RECURSIVE MapLabels(_, _)
MapLabels(ls, list) ==
  IF ls = <<>> THEN <<>>
  ELSE IF 0 <= Head(ls) /\ Head(ls) < Len(list)
       THEN <<list[Head(ls) + 1]>> \o MapLabels(Tail(ls), list)
       ELSE MapLabels(Tail(ls), list)

\* list[:k] as Python slices it
PyPrefix(list, k) ==
  IF k >= 0 THEN SubSeq(list, 1, Min(k, Len(list)))
  ELSE SubSeq(list, 1, IF Len(list) + k > 0 THEN Len(list) + k ELSE 0)

\* return of retrieve_relevant_chunks to its caller (lines 144, 172, 177)
RetrReturn(list, p) ==
  /\ relevant' = list
  /\ path' = p
  /\ pc' = IF op = "process_question" THEN "pq_relevant" ELSE "done"
  /\ outcome' = IF op = "process_question" THEN outcome ELSE "returned"

\* mutant: a failure returns no chunk at all
FallbackEmpty(p) == RetrReturn(<<>>, p)

\* lines 174-177: the except branch
Fallback(p) == RetrReturn(PyPrefix(chunks, top_k), p)

\* lines 143-144
RetrEntry ==
  /\ pc = "r_entry"
  /\ IF chunks = <<>> \/ Len(matrix.rows) = 0
     THEN RetrReturn(<<>>, "empty")
     ELSE /\ pc' = "r_client"
          /\ UNCHANGED <<relevant, path, outcome>>
  /\ UNCHANGED <<op, chunkVars, embedVars, callVars, top_k, qvec, labels>>

\* line 148: client = get_kong_client()
RetrClient ==
  /\ pc = "r_client"
  /\ nClient' = nClient + 1
  /\ \E cfg \in ConfigStates :
       IF cfg = "present"
       THEN /\ pc' = "r_embed"
            /\ UNCHANGED <<relevant, path, outcome>>
       ELSE Fallback("fallback_client")
  /\ UNCHANGED <<op, chunkVars, embedVars, top_k, qvec, labels, nEmbed, nChat>>

\* lines 149-153: the embedding call for the question
RetrEmbed ==
  /\ pc = "r_embed"
  /\ nEmbed' = nEmbed + 1
  /\ \E r \in ServiceOutcomes :
       IF r.ok
       THEN /\ qvec' = r.vec
            /\ pc' = "r_index"
            /\ UNCHANGED <<relevant, path, outcome>>
       ELSE /\ Fallback("fallback_embed")
            /\ UNCHANGED qvec
  /\ UNCHANGED <<op, chunkVars, embedVars, top_k, labels, nClient, nChat>>

\* lines 156-160: IndexFlatL2(dimension), index.add(embeddings)
RetrIndex ==
  /\ pc = "r_index"
  /\ \/ /\ pc' = "r_search"
        /\ UNCHANGED <<relevant, path, outcome>>
     \/ Fallback("fallback_index")          \* the index build raises
  /\ UNCHANGED <<op, chunkVars, embedVars, callVars, top_k, qvec, labels>>

\* lines 163-164: k = min(top_k, len(chunks)); index.search(question_embedding, k)
RetrSearch ==
  /\ pc = "r_search"
  /\ LET k == Min(top_k, Len(chunks)) IN
     \/ IF qvec.dim # matrix.width
        THEN /\ Fallback("fallback_dim")    \* faiss: assert d == self.d
             /\ UNCHANGED labels
        ELSE IF k <= 0
        THEN /\ Fallback("fallback_k")      \* faiss: assert k > 0
             /\ UNCHANGED labels
        ELSE /\ labels' \in SearchResults(matrix.rows, qvec, k)
             /\ pc' = "r_map"
             /\ UNCHANGED <<relevant, path, outcome>>
     \/ /\ Fallback("fallback_search")      \* the search raises
        /\ UNCHANGED labels
  /\ UNCHANGED <<op, chunkVars, embedVars, callVars, top_k, qvec>>

\* lines 167-172
RetrMap ==
  /\ pc = "r_map"
  /\ RetrReturn(MapLabels(labels, chunks), "searched")
  /\ UNCHANGED <<op, chunkVars, embedVars, callVars, top_k, qvec, labels>>

NextRetrieve == RetrEntry \/ RetrClient \/ RetrEmbed \/ RetrIndex \/ RetrSearch \/ RetrMap

(***************************************************************************)
(* process_question (main.py)                                              *)
(***************************************************************************)
\* lines 110-119
PqChunks ==
  /\ pc = "pq_chunks"
  /\ IF chunks = <<>>
     THEN /\ outcome' = "no_content"
          /\ pc' = "done"
     ELSE /\ pc' = "e_entry"
          /\ UNCHANGED outcome
  /\ UNCHANGED <<op, chunkVars, embedVars, retrVars, callVars>>

\* lines 125-138: the check of the retrieved chunks, then main.get_kong_client
PqRelevant ==
  /\ pc = "pq_relevant"
  /\ IF relevant = <<>>
     THEN /\ outcome' = "no_relevant"
          /\ pc' = "done"
          /\ UNCHANGED nClient
     ELSE /\ nClient' = nClient + 1
          /\ \E cfg \in ConfigStates :
               IF cfg = "present"
               THEN /\ pc' = "pq_chat"
                    /\ UNCHANGED outcome
               ELSE /\ pc' = "done"         \* main.py lines 20-30: exit(1)
                    /\ outcome' = "exit"
  /\ UNCHANGED <<op, chunkVars, embedVars, retrVars, nEmbed, nChat>>

\* lines 139-154: the chat completion
PqChat ==
  /\ pc = "pq_chat"
  /\ nChat' = nChat + 1
  /\ pc' = "done"
  /\ \/ outcome' = "answered"
     \/ outcome' = "error"                  \* the call raises: line 152
  /\ UNCHANGED <<op, chunkVars, embedVars, retrVars, nClient, nEmbed>>

NextProcess == PqChunks \/ PqRelevant \/ PqChat

InitCommon ==
  /\ outcome = "running"
  /\ content = <<>>
  /\ i = 0
  /\ depth = 0
  /\ how = "none"
  /\ wins = <<>>
  /\ embeddings = <<>>
  /\ calls = <<>>
  /\ labels = <<>>
  /\ relevant = <<>>
  /\ qvec = NoVec
  /\ path = "none"
  /\ nClient = 0
  /\ nEmbed = 0
  /\ nChat = 0

\* a call get_wikipedia_chunks(query, max_chunks)
InitChunk ==
  /\ InitCommon
  /\ op = "get_wikipedia_chunks"
  /\ pc = "search"
  /\ max_chunks \in 0..MaxM
  /\ chunks = <<>>
  /\ matrix = NoMatrix
  /\ top_k = 0

SpecChunk == InitChunk /\ [][NextChunk]_vars

\* a call embed_chunks(chunks)
InitEmbed ==
  /\ InitCommon
  /\ op = "embed_chunks"
  /\ pc = "e_entry"
  /\ max_chunks = 0
  /\ \E n \in 0..MaxChunks : chunks = ChunkList(n)
  /\ matrix = NoMatrix
  /\ top_k = 0

SpecEmbed == InitEmbed /\ [][NextEmbed]_vars

\* the matrices handed to retrieve_relevant_chunks
Matrices ==
  {[rows |-> r, width |-> w] :
     r \in UNION {[1..n -> {[dim |-> w2, head |-> h] : w2 \in {2, D}, h \in Heads}]
                    : n \in 0..MaxChunks},
     w \in {2, D}}

\* a call retrieve_relevant_chunks(question, chunks, embeddings, top_k)
InitRetrieve ==
  /\ InitCommon
  /\ op = "retrieve_relevant_chunks"
  /\ pc = "r_entry"
  /\ max_chunks = 0
  /\ \E n \in 0..MaxChunks : chunks = ChunkList(n)
  /\ matrix \in {m \in Matrices : \A k \in 1..Len(m.rows) : m.rows[k].dim = m.width}
  /\ top_k \in 0..MaxK

SpecRetrieve == InitRetrieve /\ [][NextRetrieve]_vars

\* a call process_question(question, style)
InitProcess ==
  /\ InitCommon
  /\ op = "process_question"
  /\ pc = "search"
  /\ max_chunks = PipeMaxChunks
  /\ chunks = <<>>
  /\ matrix = NoMatrix
  /\ top_k = PipeTopK

Init == InitChunk \/ InitEmbed \/ InitRetrieve \/ InitProcess

Next == NextChunk \/ NextEmbed \/ NextRetrieve \/ NextProcess

Spec == Init /\ [][Next]_vars

(***************************************************************************)
(* Properties                                                              *)
(***************************************************************************)
EmbedDone == op = "embed_chunks" /\ pc = "done"
RetrDone == op = "retrieve_relevant_chunks" /\ pc = "done"
ChunkDone == op = "get_wikipedia_chunks" /\ pc = "done"

\* every vector the service returned has D entries
WellFormedCalls == \A j \in 1..Len(calls) : calls[j].ok => calls[j].vec.dim = D

FailedCalls == {j \in 1..Len(calls) : ~calls[j].ok}
ZeroRows == {j \in 1..Len(matrix.rows) : matrix.rows[j] = ZeroVec(D)}

\* C1: with the client constructed and N >= 1 chunks, whatever calls fail,
\* embed_chunks makes all N calls and returns N rows: row i is the vector
\* returned for chunk i, or the zero vector when call i failed; k failed calls
\* give exactly k zero rows (when no call returned a zero vector itself).
C1_RowsAligned ==
  (EmbedDone /\ calls # <<>> /\ WellFormedCalls) =>
     /\ outcome = "returned"
     /\ Len(calls) = Len(chunks)
     /\ Len(matrix.rows) = Len(chunks)
     /\ \A j \in 1..Len(chunks) :
          matrix.rows[j] = IF calls[j].ok THEN calls[j].vec ELSE ZeroVec(D)
     /\ (\A j \in 1..Len(calls) : calls[j].ok => calls[j].vec # ZeroVec(D))
          => ZeroRows = FailedCalls

C1_Witness ==
  /\ EmbedDone /\ outcome = "returned" /\ WellFormedCalls
  /\ Len(chunks) = 3
  /\ calls[1].ok /\ ~calls[2].ok /\ calls[3].ok
  /\ calls[1].vec # calls[3].vec /\ calls[1].vec # ZeroVec(D) /\ calls[3].vec # ZeroVec(D)
  /\ ZeroRows = {2}

\* C2: embed_chunks never raises and every row of the matrix it returns has
\* exactly D entries, whatever the service or its configuration does.
C2_NeverRaisesWidthD ==
  EmbedDone =>
     /\ outcome = "returned"
     /\ matrix.width = D
     /\ \A j \in 1..Len(matrix.rows) : matrix.rows[j].dim = D

\* C3: with chunks and a matrix row present, a failure of any step of
\* retrieve_relevant_chunks is not raised: the result is the first k chunks
\* in document order (all of them when k exceeds their number).
C3_FallbackFirstK ==
  (RetrDone /\ path \notin {"none", "empty", "searched"}) =>
     /\ chunks # <<>> /\ Len(matrix.rows) >= 1
     /\ outcome = "returned"
     /\ Len(relevant) = Min(top_k, Len(chunks))
     /\ \A j \in 1..Len(relevant) : relevant[j] = chunks[j]

C3_Witness ==
  /\ RetrDone /\ path = "fallback_search"
  /\ Len(chunks) = 3 /\ top_k = 2
  /\ relevant = <<chunks[1], chunks[2]>>

\* the 0-based position of a chunk of the (duplicate-free) chunk list
PosOf(c) == CHOOSE b \in 0..(Len(chunks) - 1) : chunks[b + 1] = c

\* the squared distance of row a (0-based) to the query
RowDist(a) == Dist2(matrix.rows[a + 1], qvec)

\* row a precedes row b in the order of C4 as stated: nearer, or equally
\* distant and at the lower position
Nearer(a, b) == RowDist(a) < RowDist(b) \/ (RowDist(a) = RowDist(b) /\ a <= b)

SearchedCase ==
  /\ RetrDone
  /\ qvec # NoVec /\ qvec.dim = matrix.width
  /\ path \notin {"fallback_index", "fallback_search"}
  /\ Len(chunks) >= 1 /\ Len(matrix.rows) = Len(chunks)

Scenario ==
  /\ RetrDone /\ path = "searched"
  /\ Len(chunks) = 3 /\ Len(matrix.rows) = 3 /\ top_k = 2
  /\ matrix.rows[1].head = <<10>> /\ matrix.rows[2].head = <<0, 10>>
  /\ matrix.rows[3].head = <<9, 1>> /\ qvec.head = <<10>>

\* exactly min(k, N) chunks of the list, at distinct positions
ExactlyMinKDistinct ==
  /\ Len(relevant) = Min(top_k, Len(chunks))
  /\ \A j \in 1..Len(relevant) : \E b \in 1..Len(chunks) : relevant[j] = chunks[b]
  /\ \A j, l \in 1..Len(relevant) : j < l => PosOf(relevant[j]) # PosOf(relevant[l])

C5_MismatchPropagates ==
  (RetrDone /\ qvec # NoVec /\ qvec.dim # matrix.width
            /\ path \notin {"fallback_index", "fallback_search"})
     => outcome = "raised" /\ path # "searched"

\* chunk is a contiguous piece of w
IsSubstr(chunk, w) ==
  \E a \in 0..(StrLen(w) - StrLen(chunk)) : Slice(w, a, a + StrLen(chunk)) = chunk

InChunking == op = "get_wikipedia_chunks" /\ pc \in {"loop", "done"}

\* C6: every chunk of the chunking loop is non-empty, at most chunk_size long
\* and a piece of its own window; the windows start at 0, chunk_size,
\* 2*chunk_size, ..., so they are disjoint and consecutive.
C6_ChunksInWindows ==
  InChunking =>
     /\ Len(wins) = Len(chunks)
     /\ \A j \in 1..Len(chunks) :
          /\ chunks[j] # <<>> /\ StrLen(chunks[j]) >= 1
          /\ StrLen(chunks[j]) <= chunk_size
          /\ wins[j] = (j - 1) * chunk_size
          /\ wins[j] < StrLen(content)
          /\ IsSubstr(chunks[j], Slice(content, (j - 1) * chunk_size, j * chunk_size))

C6_Witness ==
  /\ ChunkDone /\ Len(chunks) = 3
  /\ StrLen(chunks[1]) = chunk_size
  /\ StrLen(chunks[2]) < chunk_size      \* trimmed at a period
  /\ StrLen(content) > 2 * chunk_size

\* ceil(len / chunk_size): the number of windows of a text
WindowCount(s) == (StrLen(s) + chunk_size - 1) \div chunk_size

\* C7: at most max_chunks chunks are returned for every max_chunks >= 0, and
\* exactly one per window when the text has no more windows than that.
C7_AtMostM ==
  ChunkDone =>
     /\ Len(chunks) <= max_chunks
     /\ (how = "chunked" /\ WindowCount(content) <= max_chunks)
          => Len(chunks) = WindowCount(content)

ChunkerPcs == {"search", "page", "loop", "disambig"}

\* C8: with no chunks, embed_chunks returns a zero-row matrix of width D and
\* retrieve_relevant_chunks returns the empty list (also for a zero-row
\* matrix), neither constructing the client nor calling the service; in
\* process_question an empty chunk list ends the query before any embedding
\* or chat call.
C8_EmptyNoCalls ==
  /\ (EmbedDone /\ chunks = <<>>) =>
        /\ outcome = "returned"
        /\ matrix = [rows |-> <<>>, width |-> D]
        /\ nClient = 0 /\ nEmbed = 0
  /\ (RetrDone /\ (chunks = <<>> \/ Len(matrix.rows) = 0)) =>
        /\ outcome = "returned"
        /\ relevant = <<>>
        /\ nClient = 0 /\ nEmbed = 0
  /\ (op = "process_question" /\ pc \notin ChunkerPcs /\ chunks = <<>>) =>
        /\ pc \in {"pq_chunks", "done"}
        /\ pc = "done" => outcome = "no_content"
        /\ nClient = 0 /\ nEmbed = 0 /\ nChat = 0

C8_Witness ==
  /\ op = "process_question" /\ pc = "done" /\ chunks = <<>>
  /\ how = "chunked" /\ outcome = "no_content" /\ nEmbed = 0 /\ nChat = 0

\* C9 as stated: get_wikipedia_chunks returns a list without raising, and an
\* empty search result, a page-fetch error or any disambiguation condition
\* yields the empty list.
C9_DisambigAlwaysEmpty ==
  ChunkDone =>
     /\ outcome = "returned"
     /\ (how # "chunked" \/ depth > 0) => chunks = <<>>

\* the windows the chunking loop has still to visit
Remaining == IF pc = "loop" THEN WindowCount(content) - (i \div chunk_size) ELSE 0

\* a measure of the work left: recursion levels, then position, then windows
Measure ==
  <<RecLimit - depth,
    CASE pc = "search" -> 3 [] pc = "page" -> 2 [] pc = "loop" -> 1
      [] pc = "disambig" -> 1 [] OTHER -> 0,
    Remaining>>

LexLess(m, n) ==
  \/ m[1] < n[1]
  \/ m[1] = n[1] /\ m[2] < n[2]
  \/ m[1] = n[1] /\ m[2] = n[2] /\ m[3] < n[3]

\* C9 (amended): get_wikipedia_chunks always terminates (every step lowers a
\* well-founded measure and only a returned call has no step left) and
\* returns a list without raising; an empty search result, a page-fetch
\* error, a failed fallback lookup and ambiguity at every level yield the
\* empty list.
C9_TerminatesWithList ==
  /\ [][LexLess(Measure', Measure)]_vars
  /\ [](\A k \in 1..3 : Measure[k] >= 0)
  /\ [](pc \in ChunkerPcs \/ ChunkDone)
  /\ [](ChunkDone => /\ outcome = "returned"
                     /\ how \in {"search_empty", "error", "fallback_error",
                                 "recursion_limit", "chunked"}
                     /\ how # "chunked" => chunks = <<>>)

C9_Witness ==
  /\ ChunkDone /\ outcome = "returned"
  /\ depth = RecLimit /\ how = "recursion_limit" /\ chunks = <<>>

\* the chunk the claim C10 expects of window j, the trim applying when the
\* last period is at index p with TrimsAt(p)
Expected(j, TrimsAt(_)) ==
  LET w == Window(content, wins[j])
      p == RFind(w, ".")
  IN IF wins[j] + chunk_size < StrLen(content) /\ TrimsAt(p)
     THEN Strip(Take(w, p + 1))
     ELSE Strip(w)

AtOrAfterMark(p) == p * 10 >= chunk_size * 7
AfterMark(p) == p * 10 > chunk_size * 7

\* C10 as stated: a window other than the last ends at its last period when
\* that period is at or after the 70% position, and is the whole window
\* otherwise; the last window is never shortened.
C10_TrimAtOrAfterMark ==
  InChunking => \A j \in 1..Len(chunks) : chunks[j] = Expected(j, AtOrAfterMark)

\* C10 (amended): the same with the period strictly after the 70% position.
C10_TrimAfterMark ==
  InChunking => \A j \in 1..Len(chunks) : chunks[j] = Expected(j, AfterMark)

C10_Witness ==
  /\ ChunkDone /\ Len(chunks) = 2
  /\ RFind(Window(content, 0), ".") = 561
  /\ StrLen(chunks[1]) = 562
  /\ chunks[2] = Window(content, chunk_size)

====
